---- MODULE Spec2Model ----
(***************************************************************************)
(* Model of the pairwise combination risk engine of src/frontend/app.py:   *)
(* get_drug_side_effects, create_feature_vector and                        *)
(* predict_drug_combinations.                                              *)
(*                                                                         *)
(* Data frames are sequences of rows.  Python floats are modelled as exact *)
(* rationals (reduced fractions [n, d]); rounding is abstracted away.      *)
(* The pickled classifier is an opaque deterministic function of the       *)
(* feature vector: its answers are chosen when first asked and remembered  *)
(* in the variable model, and a call may also fail.                        *)
(***************************************************************************)
EXTENDS Integers, Sequences, FiniteSets, TLC

\* ------------------------------------------------------------------ bounds
\* Most rows drug_names_df holds.
MaxDrugRows == 3
\* Most rows side_effects_df holds.
MaxSideEffectRows == 4
\* len(label_encoder.classes_): the number of classes of the classifier.
NumClasses == 2

\* The universes the rows are drawn from, each in a fixed listing order.
DrugNameList == <<"DrugA", "DrugB", "DrugC">>
SideEffectList == <<"nausea", "rash", "fatigue">>
DrugNames == {DrugNameList[i] : i \in 1..Len(DrugNameList)}
SideEffects == {SideEffectList[i] : i \in 1..Len(SideEffectList)}
DrugIdList == <<1, 2>>
DrugIds == {DrugIdList[i] : i \in 1..Len(DrugIdList)}

VARIABLES
    side_effects_df,   \* rows [drug_id, side_effect_name]
    drug_names_df,     \* rows [drug_id, drug_name]
    drug1,             \* the anchor passed to predict_drug_combinations
    model,             \* feature vector -> raw prediction, as far as asked
    pc,                \* "idle", "loop", "returned", "raised"
    all_side_effects,  \* local of predict_drug_combinations
    drug1_ses,         \* local
    other_drugs,       \* local
    combinations,      \* local
    result,            \* the list returned
    error,             \* the exception that left predict_drug_combinations
    fv_pc,             \* create_feature_vector called on its own:
    fv_drug1_ses,      \*   "idle" / "done" and its three arguments,
    fv_drug2_ses,
    fv_all_side_effects,
    fv_result,         \*   its result,
    fv_swapped         \*   and its result with the two sets exchanged

vars == <<side_effects_df, drug_names_df, drug1, model, pc, all_side_effects,
          drug1_ses, other_drugs, combinations, result, error,
          fv_pc, fv_drug1_ses, fv_drug2_ses, fv_all_side_effects, fv_result,
          fv_swapped>>

rank_vars == <<side_effects_df, drug_names_df, drug1, model, pc,
               all_side_effects, drug1_ses, other_drugs, combinations, result,
               error>>

fv_vars == <<fv_pc, fv_drug1_ses, fv_drug2_ses, fv_all_side_effects,
             fv_result, fv_swapped>>

\* ------------------------------------------------------------ sequences
SeqsUpTo(S, n) == UNION {[1..k -> S] : k \in 0..n}

ToSet(s) == {s[i] : i \in 1..Len(s)}

\* list.index(x): the first position holding x.
Index(s, x) == CHOOSE i \in 1..Len(s) : s[i] = x /\ \A j \in 1..(i - 1) : s[j] # x

\* Series.unique().tolist(): the distinct values, in order of first appearance.
Unique(s) ==
    SelectSeq([i \in 1..Len(s) |->
                  [v |-> s[i], first |-> \A j \in 1..(i - 1) : s[j] # s[i]]],
              LAMBDA e : e.first)

\* Variant: the values as they stand, repeats kept (unique() left out).
UniqueValues_repeats_kept(s) == s

UniqueValues(s) == [i \in 1..Len(Unique(s)) |-> Unique(s)[i].v]

\* The k-th distinct value of s to appear is list[k]: one representative of
\* each class of data sets that differ only by renaming.
FirstSeenOrder(s, list) ==
    \A i \in 1..Len(s) :
        \E k \in 1..(Cardinality({s[j] : j \in 1..(i - 1)}) + 1) :
            k <= Len(list) /\ s[i] = list[k]

\* --------------------------------------------------------------- numbers
RECURSIVE GCD(_, _)
GCD(a, b) == IF b = 0 THEN a ELSE GCD(b, a % b)

\* The rational n/d (d > 0, n >= 0) in lowest terms.
Frac(n, d) == LET g == GCD(n, d) IN [n |-> n \div g, d |-> d \div g]

FracMul(x, y) == Frac(x.n * y.n, x.d * y.d)
FracAdd(x, y) == Frac(x.n * y.d + y.n * x.d, x.d * y.d)
FracLeq(x, y) == x.n * y.d <= y.n * x.d
FracLess(x, y) == x.n * y.d < y.n * x.d

\* ------------------------------------------------- get_drug_side_effects
DrugNameColumn == [i \in 1..Len(drug_names_df) |-> drug_names_df[i].drug_name]

\* drug_names_df[drug_names_df['drug_name'] == drug_name]['drug_id'].values
MatchingIds(drug_name) == SelectSeq(drug_names_df, LAMBDA r : r.drug_name = drug_name)

SideEffectNamesOf(drug_id) ==
    LET rows == SelectSeq(side_effects_df, LAMBDA r : r.drug_id = drug_id)
    IN [i \in 1..Len(rows) |-> rows[i].side_effect_name]

\* Variant: an unknown name gives an empty list instead of raising.
get_drug_side_effects_defaulting(drug_name) ==
    IF Len(MatchingIds(drug_name)) = 0
    THEN [raised |-> FALSE, error |-> "", value |-> <<>>]
    ELSE [raised |-> FALSE, error |-> "",
          value |-> SideEffectNamesOf(MatchingIds(drug_name)[1].drug_id)]

\* .values[0] of an empty array raises IndexError; otherwise the side-effect
\* names of the first matching drug_id, as a list.
get_drug_side_effects(drug_name) ==
    IF Len(MatchingIds(drug_name)) = 0
    THEN [raised |-> TRUE, error |-> "IndexError", value |-> <<>>]
    ELSE [raised |-> FALSE, error |-> "",
          value |-> SideEffectNamesOf(MatchingIds(drug_name)[1].drug_id)]

\* ------------------------------------------------- create_feature_vector
RECURSIVE FillVector(_, _, _)
FillVector(ses, vocabulary, feature_vector) ==
    IF ses = {} THEN feature_vector
    ELSE LET se == CHOOSE x \in ses : TRUE
         IN FillVector(ses \ {se}, vocabulary,
                       IF se \in ToSet(vocabulary)
                       THEN [feature_vector EXCEPT ![Index(vocabulary, se)] = 1]
                       ELSE feature_vector)

\* Variant: only the first drug's side effects are marked.
create_feature_vector_first_only(d1_ses, d2_ses, vocabulary) ==
    FillVector(d1_ses, vocabulary, [i \in 1..Len(vocabulary) |-> 0])

create_feature_vector(d1_ses, d2_ses, vocabulary) ==
    FillVector(d1_ses \cup d2_ses, vocabulary, [i \in 1..Len(vocabulary) |-> 0])

\* ------------------------------------------------------------- the scores
\* len(common_ses) / (len(drug1_ses) + len(drug2_ses)) raises
\* ZeroDivisionError when both sets are empty.
RiskDivisionFault(d1_ses, d2_ses) == Cardinality(d1_ses) + Cardinality(d2_ses) = 0

\* Variant: the share of the union (Jaccard) instead of the sum of the sizes.
risk_score_of_union(d1_ses, d2_ses) ==
    FracMul(Frac(Cardinality(d1_ses \cap d2_ses), Cardinality(d1_ses \cup d2_ses)),
            Frac(100, 1))

risk_score(d1_ses, d2_ses) ==
    FracMul(Frac(Cardinality(d1_ses \cap d2_ses),
                 Cardinality(d1_ses) + Cardinality(d2_ses)),
            Frac(100, 1))

severity_score(prediction) == FracMul(Frac(prediction, NumClasses), Frac(100, 1))

\* Variant: the two weights exchanged.
combined_score_weights_swapped(risk, severity) ==
    FracAdd(FracMul(Frac(4, 10), risk), FracMul(Frac(6, 10), severity))

\* Variant: weights that do not sum to 1.
combined_score_weights_not_convex(risk, severity) ==
    FracAdd(FracMul(Frac(6, 10), risk), FracMul(Frac(6, 10), severity))

combined_score(risk, severity) ==
    FracAdd(FracMul(Frac(6, 10), risk), FracMul(Frac(4, 10), severity))

\* The raw predictions the classifier gives: an encoded class label.
Predictions == 0..(NumClasses - 1)

\* --------------------------------------------------------------- sorted()
\* sorted(list, key=...) is stable: an element goes after every element whose
\* key is not greater.
\* Variant: an unstable sort, which puts an element before its equals.
InsertByKey_before_equals(sorted, e) ==
    LET before == SelectSeq(sorted, LAMBDA x : FracLess(x.combined_score, e.combined_score))
        after == SelectSeq(sorted, LAMBDA x : FracLeq(e.combined_score, x.combined_score))
    IN before \o <<e>> \o after

InsertByKey(sorted, e) ==
    LET before == SelectSeq(sorted, LAMBDA x : FracLeq(x.combined_score, e.combined_score))
        after == SelectSeq(sorted, LAMBDA x : FracLess(e.combined_score, x.combined_score))
    IN before \o <<e>> \o after

RECURSIVE SortedFrom(_, _)
SortedFrom(list, acc) ==
    IF list = <<>> THEN acc ELSE SortedFrom(Tail(list), InsertByKey(acc, Head(list)))

SortedByCombinedScore(list) == SortedFrom(list, <<>>)

\* --------------------------------------------- predict_drug_combinations
AvailableDrugs == UniqueValues(DrugNameColumn)

\* Variant: the anchor is not filtered out of the candidates.
OtherDrugs_unfiltered(anchor) == AvailableDrugs

OtherDrugs(anchor) == SelectSeq(AvailableDrugs, LAMBDA drug : drug # anchor)

AllSideEffects ==
    UniqueValues([i \in 1..Len(side_effects_df) |-> side_effects_df[i].side_effect_name])

\* Lines 55-62: the vocabulary, the anchor's side effects, the candidates.
Predict_Start ==
    /\ pc = "idle"
    /\ LET got == get_drug_side_effects(drug1)
       IN \/ /\ got.raised
             /\ pc' = "raised"
             /\ error' = got.error
             /\ all_side_effects' = AllSideEffects
             /\ UNCHANGED <<drug1_ses, other_drugs>>
          \/ /\ ~got.raised
             /\ pc' = "loop"
             /\ all_side_effects' = AllSideEffects
             /\ drug1_ses' = ToSet(got.value)
             /\ other_drugs' = OtherDrugs(drug1)
             /\ UNCHANGED error
    /\ UNCHANGED <<side_effects_df, drug_names_df, drug1, model, combinations, result>>
    /\ UNCHANGED fv_vars

\* Lines 66-90: one iteration of the loop over other_drugs.  drug2 comes from
\* the drug_name column, so its lookup finds a row (CandidateLookupSucceeds).
Predict_Loop ==
    /\ pc = "loop"
    /\ Len(combinations) < Len(other_drugs)
    /\ LET drug2 == other_drugs[Len(combinations) + 1]
           got == get_drug_side_effects(drug2)
           drug2_ses == ToSet(got.value)
           common_ses == drug1_ses \cap drug2_ses
           feature_vector == create_feature_vector(drug1_ses, drug2_ses, all_side_effects)
       IN \/ /\ RiskDivisionFault(drug1_ses, drug2_ses)
             /\ pc' = "raised"
             /\ error' = "ZeroDivisionError"
             /\ UNCHANGED <<model, combinations>>
          \/ /\ ~RiskDivisionFault(drug1_ses, drug2_ses)
             /\ feature_vector \notin DOMAIN model
             /\ pc' = "raised"
             /\ error' = "ModelError"
             /\ UNCHANGED <<model, combinations>>
          \/ /\ ~RiskDivisionFault(drug1_ses, drug2_ses)
             /\ \E prediction \in Predictions :
                   /\ feature_vector \in DOMAIN model => model[feature_vector] = prediction
                   /\ model' = (feature_vector :> prediction) @@ model
                   /\ LET risk == risk_score(drug1_ses, drug2_ses)
                          severity == severity_score(prediction)
                      IN combinations' = Append(combinations,
                            [drug |-> drug2,
                             risk_score |-> risk,
                             severity_score |-> severity,
                             combined_score |-> combined_score(risk, severity),
                             common_side_effects |-> common_ses])
             /\ UNCHANGED <<pc, error>>
    /\ UNCHANGED <<side_effects_df, drug_names_df, drug1, all_side_effects,
                   drug1_ses, other_drugs, result>>
    /\ UNCHANGED fv_vars

\* Line 93: the loop is over; the sorted list is returned.
Predict_Return ==
    /\ pc = "loop"
    /\ Len(combinations) = Len(other_drugs)
    /\ pc' = "returned"
    /\ result' = SortedByCombinedScore(combinations)
    /\ UNCHANGED <<side_effects_df, drug_names_df, drug1, model, all_side_effects,
                   drug1_ses, other_drugs, combinations, error>>
    /\ UNCHANGED fv_vars

\* A call of create_feature_vector on its own, in both argument orders.
Vectorize ==
    /\ fv_pc = "idle"
    /\ fv_pc' = "done"
    /\ fv_result' = create_feature_vector(fv_drug1_ses, fv_drug2_ses, fv_all_side_effects)
    /\ fv_swapped' = create_feature_vector(fv_drug2_ses, fv_drug1_ses, fv_all_side_effects)
    /\ UNCHANGED <<fv_drug1_ses, fv_drug2_ses, fv_all_side_effects>>
    /\ UNCHANGED rank_vars

\* ------------------------------------------------------------------ Init
DrugRows == [drug_id : DrugIds, drug_name : DrugNames]
SideEffectRows == [drug_id : DrugIds, side_effect_name : SideEffects]

RankLocalsInit ==
    /\ model = <<>>
    /\ pc = "idle"
    /\ all_side_effects = <<>>
    /\ drug1_ses = {}
    /\ other_drugs = <<>>
    /\ combinations = <<>>
    /\ result = <<>>
    /\ error = ""

FvOff ==
    /\ fv_pc = "off"
    /\ fv_drug1_ses = {}
    /\ fv_drug2_ses = {}
    /\ fv_all_side_effects = <<>>
    /\ fv_result = <<>>
    /\ fv_swapped = <<>>

\* The side-effect file lists its rows drug by drug, in increasing drug_id.
GroupedByDrug(rows) ==
    \A i, j \in 1..Len(rows) : i < j => rows[i].drug_id <= rows[j].drug_id

\* A loaded data set and an anchor; nothing called yet.  Rows may repeat, a
\* name may stand in several rows, and a drug may have no side-effect row.
Init ==
    /\ side_effects_df \in SeqsUpTo(SideEffectRows, MaxSideEffectRows)
    /\ GroupedByDrug(side_effects_df)
    /\ FirstSeenOrder([i \in 1..Len(side_effects_df) |-> side_effects_df[i].side_effect_name],
                      SideEffectList)
    /\ drug_names_df \in SeqsUpTo(DrugRows, MaxDrugRows)
    /\ FirstSeenOrder(DrugNameColumn, DrugNameList)
    /\ FirstSeenOrder([i \in 1..Len(drug_names_df) |-> drug_names_df[i].drug_id], DrugIdList)
    /\ drug1 \in DrugNames
    /\ RankLocalsInit
    /\ FvOff

Next == Predict_Start \/ Predict_Loop \/ Predict_Return

Spec == Init /\ [][Next]_vars

\* The arguments of one call of create_feature_vector: two sets of labels
\* and a vocabulary without repetitions (line 55 builds it with unique()).
Vocabularies == {s \in SeqsUpTo(SideEffects, Len(SideEffectList)) :
                    \A i, j \in 1..Len(s) : s[i] = s[j] => i = j}

InitFV ==
    /\ side_effects_df = <<>>
    /\ drug_names_df = <<>>
    /\ drug1 = DrugNameList[1]
    /\ RankLocalsInit
    /\ fv_pc = "idle"
    /\ fv_drug1_ses \in SUBSET SideEffects
    /\ fv_drug2_ses \in SUBSET SideEffects
    /\ fv_all_side_effects \in Vocabularies
    /\ fv_result = <<>>
    /\ fv_swapped = <<>>

NextFV == Vectorize

SpecFV == InitFV /\ [][NextFV]_vars

\* ============================================================ properties
\* What the data set says, stated without the functions under check.
Known(name) == \E i \in 1..Len(drug_names_df) : drug_names_df[i].drug_name = name

FirstRowOf(name) ==
    CHOOSE i \in 1..Len(drug_names_df) :
        /\ drug_names_df[i].drug_name = name
        /\ \A j \in 1..(i - 1) : drug_names_df[j].drug_name # name

Profile(name) ==
    {side_effects_df[k].side_effect_name :
        k \in {k \in 1..Len(side_effects_df) :
                 side_effects_df[k].drug_id = drug_names_df[FirstRowOf(name)].drug_id}}

\* Every record built so far, returned or not.
Records == ToSet(combinations) \cup ToSet(result)

\* The raw prediction the classifier gave for a record's pair.
PredictionFor(r) ==
    model[create_feature_vector(Profile(drug1), Profile(r.drug), AllSideEffects)]

PlaceOf(name) == CHOOSE k \in 1..Len(other_drugs) : other_drugs[k] = name

PerCandidateErrors == {"ZeroDivisionError", "ModelError"}

\* Every candidate of the loop has a row in drug_names_df, so the lookup of
\* line 67 never raises.
CandidateLookupSucceeds ==
    pc = "loop" => \A k \in 1..Len(other_drugs) : ~get_drug_side_effects(other_drugs[k]).raised

\* C1: when the anchor's and a candidate's side-effect sets are both empty,
\* the candidate's risk_score is 0 and the run does not end in a division by
\* zero.  (The code divides by the sum of the two sizes without a guard.)
C1_EmptyProfilesScoreZero ==
    /\ error # "ZeroDivisionError"
    /\ \A r \in Records :
          (Profile(drug1) = {} /\ Profile(r.drug) = {}) => r.risk_score = [n |-> 0, d |-> 1]

\* C2: a failure while scoring one candidate is recorded against that
\* candidate only: the run still returns, with a result for every other
\* candidate.  (The code lets the exception leave the loop.)
C2_CandidateFailureIsLocal ==
    error \in PerCandidateErrors =>
        /\ pc = "returned"
        /\ Len(result) >= Len(other_drugs) - 1

\* C3: a drug name with no row in drug_names_df makes get_drug_side_effects
\* raise instead of returning a default, and predict_drug_combinations called
\* with such an anchor ends with that error and returns no ranking.
C3_UnknownAnchorRaises ==
    /\ \A name \in DrugNames :
          ~Known(name) => /\ get_drug_side_effects(name).raised
                          /\ get_drug_side_effects(name).error = "IndexError"
    /\ (pc # "idle" /\ ~Known(drug1)) =>
          /\ pc = "raised"
          /\ error = "IndexError"
          /\ combinations = <<>>
          /\ result = <<>>

C3_Witness ==
    /\ pc = "raised"
    /\ error = "IndexError"
    /\ ~Known(drug1)
    /\ Len(drug_names_df) = MaxDrugRows

\* C4: the returned list is sorted non-decreasing by combined_score, and two
\* records with equal combined_score keep the order their drugs have in
\* other_drugs.
C4_SortedAndStable ==
    pc = "returned" =>
        \A i, j \in 1..Len(result) :
            i < j =>
                LET a == result[i].combined_score
                    b == result[j].combined_score
                IN /\ a.n * b.d <= b.n * a.d
                   /\ a.n * b.d = b.n * a.d => PlaceOf(result[i].drug) < PlaceOf(result[j].drug)

C4_Witness ==
    /\ pc = "returned"
    /\ Len(result) = 2
    /\ result[1].combined_score = result[2].combined_score
    /\ result[1].drug # result[2].drug

\* C5: no record of the returned list (nor of the list being built) has the
\* anchor as its drug.
C5_AnchorNotRanked == \A r \in Records : r.drug # drug1

C5_Witness ==
    /\ pc = "returned"
    /\ Known(drug1)
    /\ Len(result) = 2

\* C6: every record has risk_score = |anchor n candidate| / (|anchor| +
\* |candidate|) * 100, severity_score = prediction / classCount * 100 and
\* combined_score = 0.6 * risk_score + 0.4 * severity_score; the profiles
\* {nausea, rash} and {nausea, fatigue} with severity 50 give 25 and 35.
C6_ScoreFormulas ==
    \A r \in Records :
        LET A == Profile(drug1)
            B == Profile(r.drug)
            risk == r.risk_score
            sev == r.severity_score
            comb == r.combined_score
        IN /\ risk.n * (Cardinality(A) + Cardinality(B)) = 100 * Cardinality(A \cap B) * risk.d
           /\ sev.n * NumClasses = 100 * PredictionFor(r) * sev.d
           /\ 10 * comb.n * risk.d * sev.d = comb.d * (6 * risk.n * sev.d + 4 * sev.n * risk.d)
           /\ (/\ A = {"nausea", "rash"}
               /\ B = {"nausea", "fatigue"}
               /\ sev = [n |-> 50, d |-> 1])
              => /\ risk = [n |-> 25, d |-> 1]
                 /\ comb = [n |-> 35, d |-> 1]

C6_Witness ==
    /\ pc = "returned"
    /\ \E i \in 1..Len(result) :
          /\ Profile(drug1) = {"nausea", "rash"}
          /\ Profile(result[i].drug) = {"nausea", "fatigue"}
          /\ result[i].severity_score = [n |-> 50, d |-> 1]
          /\ result[i].combined_score = [n |-> 35, d |-> 1]

\* A record whose candidate has the anchor's profile, which is not empty.
SameProfile(r) == Profile(r.drug) = Profile(drug1) /\ Profile(drug1) # {}

\* C7 as stated: a candidate with the anchor's non-empty profile has
\* risk_score 100.
C7_SelfOverlapIs100 ==
    \A r \in Records : SameProfile(r) => r.risk_score = [n |-> 100, d |-> 1]

\* C7 amended: a candidate with the anchor's non-empty profile has
\* risk_score 50: |A| / (|A| + |A|) * 100.
C7_SelfOverlapIs50 ==
    \A r \in Records : SameProfile(r) => r.risk_score = [n |-> 50, d |-> 1]

C7_Witness ==
    /\ pc = "returned"
    /\ \E i \in 1..Len(result) :
          /\ SameProfile(result[i])
          /\ Cardinality(Profile(drug1)) = 2

C9_FeatureVector ==
    fv_pc = "done" =>
        /\ Len(fv_result) = Len(fv_all_side_effects)
        /\ DOMAIN fv_result = 1..Len(fv_all_side_effects)
        /\ \A i \in 1..Len(fv_all_side_effects) :
              fv_result[i] = IF fv_all_side_effects[i] \in (fv_drug1_ses \cup fv_drug2_ses)
                             THEN 1 ELSE 0
        /\ fv_swapped = fv_result

C9_Witness ==
    /\ fv_pc = "done"
    /\ (fv_drug1_ses \cup fv_drug2_ses) \ ToSet(fv_all_side_effects) # {}
    /\ fv_drug1_ses \ fv_drug2_ses # {}
    /\ fv_drug2_ses \ fv_drug1_ses # {}
    /\ \E i, j \in 1..Len(fv_result) : fv_result[i] = 1 /\ fv_result[j] = 0

\* C10: a normal return holds exactly one record for each distinct drug name
\* other than the anchor, and each record's common_side_effects is the
\* intersection of the anchor's and the candidate's side effects.
C10_OneRecordPerCandidate ==
    pc = "returned" =>
        LET candidates == {drug_names_df[i].drug_name : i \in 1..Len(drug_names_df)} \ {drug1}
        IN /\ Len(result) = Cardinality(candidates)
           /\ {result[i].drug : i \in 1..Len(result)} = candidates
           /\ \A i \in 1..Len(result) :
                 result[i].common_side_effects = Profile(drug1) \cap Profile(result[i].drug)

C10_Witness ==
    /\ pc = "returned"
    /\ Len(result) = 1
    /\ result[1].common_side_effects # {}
    /\ \E i, j \in 1..Len(drug_names_df) :
          /\ i < j
          /\ drug_names_df[i].drug_name = result[1].drug
          /\ drug_names_df[j].drug_name = result[1].drug
          /\ drug_names_df[i].drug_id # drug_names_df[j].drug_id

====
